---- MODULE Spec2Model ----
\* A model of nix-review's command layer (src/nix_review/app.py): main with the
\* search for the nixpkgs root, the parsing of pull-request numbers, the batch
\* (pr) and single-revision (rev) sessions, the Worktree context manager with
\* its environment overlay, and the DisableKeyboardInterrupt guard, with SIGINT
\* delivered at any point.
EXTENDS Integers, Sequences, FiniteSets, TLC

\* ---------------------------------------------------------------- bounds
\* Most tokens on one command line.
MaxArgs == 2
\* Longest generated token, in characters (SpecParse).
MaxTokLen == 3
\* Most characters on one generated command line, all tokens together
\* (SpecParse).
MaxChars == 6
\* Most disturbances of one run: SIGINTs delivered, cleanup calls that fail
\* and directories removed behind the session's back, all together.
MaxDisturbances == 1
\* The deepest working directory a process starts in, in levels below "/"
\* (SpecMain).
MaxDepth == 2

\* ------------------------------------------------- strings and integers
\* A token is a sequence of one-character strings.
Digits == {"0", "1", "2", "3", "4", "5", "6", "7", "8", "9"}

DigitVal(c) ==
  CASE c = "0" -> 0 [] c = "1" -> 1 [] c = "2" -> 2 [] c = "3" -> 3
    [] c = "4" -> 4 [] c = "5" -> 5 [] c = "6" -> 6 [] c = "7" -> 7
    [] c = "8" -> 8 [] c = "9" -> 9

\* The value of a non-empty string of decimal digits.
RECURSIVE DigitsToInt(_)
DigitsToInt(s) ==
  IF s = <<>> THEN 0
  ELSE 10 * DigitsToInt(SubSeq(s, 1, Len(s) - 1)) + DigitVal(s[Len(s)])

AllDigits(s) == Len(s) >= 1 /\ \A k \in 1..Len(s) : s[k] \in Digits

\* The length of the longest run of digits of s that starts at position k.
RECURSIVE DigitRun(_, _)
DigitRun(s, k) ==
  IF k > Len(s) \/ s[k] \notin Digits THEN 0 ELSE 1 + DigitRun(s, k + 1)

\* re.match(r"(\d+)-(\d+)", arg): the pattern is matched at the start of arg
\* and is not anchored at its end. The result is <<>> (no match) or the pair
\* of the two groups.
ReMatch(arg) ==
  LET a == DigitRun(arg, 1)
      b == DigitRun(arg, a + 2)
  IN  IF a >= 1 /\ Len(arg) >= a + 1 /\ arg[a + 1] = "-" /\ b >= 1
      THEN <<SubSeq(arg, 1, a), SubSeq(arg, a + 2, a + 1 + b)>>
      ELSE <<>>

\* int(arg) succeeds on an optional sign followed by decimal digits (the
\* alphabets used here hold no white space and no underscore).
IntOk(arg) ==
  \/ AllDigits(arg)
  \/ Len(arg) >= 2 /\ arg[1] \in {"-", "+"} /\ AllDigits(Tail(arg))

IntOf(arg) ==
  IF arg[1] = "-" THEN 0 - DigitsToInt(Tail(arg))
  ELSE IF arg[1] = "+" THEN DigitsToInt(Tail(arg))
  ELSE DigitsToInt(arg)

\* range(a, b): a, a+1, ..., b-1 (RangeInclusive: the closed range).
RangeInclusive(a, b) == [k \in 1..(IF b >= a THEN b - a + 1 ELSE 0) |-> a + k - 1]

Range(a, b) == [k \in 1..(IF b > a THEN b - a ELSE 0) |-> a + k - 1]

\* str(m) for the value m of re.match: "None", or the text of a match object.
Str(m) ==
  IF m = <<>> THEN <<"N", "o", "n", "e">>
  ELSE <<"<", "r", "e", ".", "M", "a", "t", "c", "h", " ">> \o m[1] \o <<"-">> \o m[2] \o <<">">>

\* One iteration of the loop of parse_pr_numbers: the identifiers the token
\* adds, or the failure that ends the process.
ParseArg(arg) ==
  LET m == ReMatch(arg)
  IN  IF m # <<>>
      THEN [ok |-> TRUE, prs |-> Range(DigitsToInt(m[1]), DigitsToInt(m[2]))]
      ELSE IF IntOk(arg) THEN [ok |-> TRUE, prs |-> <<IntOf(arg)>>]
      ELSE [ok |-> FALSE, prs |-> <<>>]

\* parse_pr_numbers: the identifiers of all tokens in order; the first token
\* that is rejected ends the process (sys.exit(1)) and names the position.
RECURSIVE ParseFrom(_, _, _)
ParseFrom(number_args, k, acc) ==
  IF k > Len(number_args) THEN [ok |-> TRUE, prs |-> acc, bad |-> 0]
  ELSE LET r == ParseArg(number_args[k])
       IN  IF r.ok THEN ParseFrom(number_args, k + 1, acc \o r.prs)
           ELSE [ok |-> FALSE, prs |-> <<>>, bad |-> k]

parse_pr_numbers(number_args) == ParseFrom(number_args, 1, <<>>)

\* ------------------------------------------------------------ the inputs
\* All sequences of 0..n members of S.
SeqsUpTo(S, n) == UNION {[1..m -> S] : m \in 0..n}

\* A generated command line is a string of characters cut into tokens: the
\* lengths of the tokens (at most MaxArgs tokens of at most MaxTokLen
\* characters, at most MaxChars together), and the cut itself.
RECURSIVE Sum(_)
Sum(ks) == IF ks = <<>> THEN 0 ELSE Head(ks) + Sum(Tail(ks))
Profiles == {ks \in SeqsUpTo(1..MaxTokLen, MaxArgs) : Sum(ks) <= MaxChars}
RECURSIVE Split(_, _)
Split(str, ks) ==
  IF ks = <<>> THEN <<>>
  ELSE <<SubSeq(str, 1, Head(ks))>>
         \o Split(SubSeq(str, Head(ks) + 1, Len(str)), Tail(ks))

\* The alphabet of the generated command lines, and the documented example.
ParseAlphabet == {"1", "3", "-"}
ExampleArgs == <<(<<"5">>), <<"1", "0", "-", "1", "2">>>>

\* The tokens of the session specification: "1", "2", "1-3", "a", "1-2a".
SessionTokens ==
  { <<"1">>, <<"2">>, <<"1", "-", "3">>, <<"a">>, <<"1", "-", "2", "a">> }
SessionArgLists == SeqsUpTo(SessionTokens, MaxArgs) \ {<<>>}

\* ---------------------------------------------------------- environment
\* os.environ as a table over the keys the program touches and one it does
\* not; a value is a triple <<kind, text, number>>.
OverlayKeys ==
  {"NIXPKGS_CONFIG", "NIX_PATH", "GIT_AUTHOR_NAME", "GIT_AUTHOR_EMAIL",
   "GIT_COMMITTER_NAME", "GIT_COMMITTER_EMAIL"}
EnvKeys == OverlayKeys \cup {"PATH"}
Absent == <<"absent", "", 0>>
UserVal == <<"user", "", 0>>
EmptyEnv == [k \in EnvKeys |-> Absent]
\* Environments a process can start in: the overlay keys unset, or some set.
PlainEnv == [k \in EnvKeys |-> IF k = "PATH" THEN UserVal ELSE Absent]
InitEnvs ==
  { PlainEnv,
    [k \in EnvKeys |-> IF k \in {"PATH", "NIX_PATH", "GIT_AUTHOR_NAME"}
                       THEN UserVal ELSE Absent] }

\* The six assignments of Worktree.__init__ for the worktree whose temporary
\* file is tmp and whose directory is ./.review/<name>.
Overlay(env, tmp, name) ==
  [k \in EnvKeys |->
     CASE k = "NIXPKGS_CONFIG" -> <<"tmpfile", "", tmp>>
       [] k = "NIX_PATH" ->
            <<(IF name[1] = "pr" THEN "nixpkgs=.review/pr-" ELSE "nixpkgs=.review/rev-"),
              name[2], name[3]>>
       [] k \in {"GIT_AUTHOR_NAME", "GIT_COMMITTER_NAME"} -> <<"nix-review", "", 0>>
       [] k \in {"GIT_AUTHOR_EMAIL", "GIT_COMMITTER_EMAIL"} ->
            <<"nix-review@example.com", "", 0>>
       [] OTHER -> env[k]]

\* os.environ.update(snap): every key of snap is set; the others are kept.
EnvUpdate(env, snap) ==
  [k \in EnvKeys |-> IF snap[k] # Absent THEN snap[k] ELSE env[k]]

\* os.environ.clear().
EnvClear(env) == EmptyEnv

\* ---------------------------------------------------------------- state
VARIABLES
  argv,        \* the parsed command line: cmd, number (tokens), commit
  initial,     \* history: os.environ and ./.review when the session started
  pc,          \* the statement the process is about to execute
  prs,         \* pr_command: the identifiers parse_pr_numbers returned
  i,           \* pr_command: the position of the loop variable pr in prs
  j,           \* pr_command: the position in attrsets of the second loop
  attrsets,    \* pr_command: the results of the builds that succeeded
  wts,         \* the Worktree objects constructed, in order (the ExitStack)
  u,           \* the position in wts of the worktree that is being released
  os_environ,  \* the environment table of the process
  dirs,        \* the directories that exist under ./.review
  tmpfiles,    \* the temporary config files that exist
  handler,     \* the SIGINT handler installed: "default" or "warn"
  old_handler, \* DisableKeyboardInterrupt.old_handler
  exc,         \* the exception that is propagating, or "none"
  exit_status, \* -1 while the process runs, then its exit status
  built,       \* history: the builds attempted, [pr, outcome], in order
  shells,      \* history: the shells launched, [attrs, url], in order
  stdout,      \* history: number of "Ignore Ctlr-C" warnings printed
  nint,        \* history: SIGINTs delivered
  nfaults,     \* history: cleanup calls that failed, directories that vanished
  cwd,         \* the depth of the working directory below "/" (0 is "/")
  release_nix, \* the depths of the ancestors that hold nixos/release.nix
  prefix,      \* find_nixpkgs_root: the list prefix
  root,        \* main: the value of find_nixpkgs_root(), <<>> for None
  stderr,      \* history: the messages printed to sys.stderr
  cleanup      \* history: the steps of Worktree.__exit__ executed, in order

\* The variables of the entry point.
mainvars == <<cwd, release_nix, prefix, root>>

vars ==
  <<argv, initial, pc, prs, i, j, attrsets, wts, u, os_environ, dirs, tmpfiles, handler,
    old_handler, exc, exit_status, built, shells, stdout, nint, nfaults, mainvars,
    stderr, cleanup>>

\* The commit the rev subcommand is given (an opaque reference).
Commit == "abc123"

\* f"pr-{pr}" and f"rev-{args.commit}": a name is <<prefix, text, number>>.
PrName(n) == <<"pr", "", n>>
RevName(c) == <<"rev", c, 0>>
Name == IF argv.cmd = "pr" THEN PrName(prs[i]) ELSE RevName(argv.commit)

\* The SIGINT handlers a Python process starts with: default_int_handler, or
\* SIG_IGN when the process inherited an ignored SIGINT.
InitHandlers == {"default", "ignore"}

InitCommon ==
  /\ prs = <<>> /\ i = 0 /\ j = 0 /\ attrsets = <<>> /\ wts = <<>> /\ u = 0
  /\ os_environ \in InitEnvs
  /\ tmpfiles = {}
  /\ handler \in InitHandlers /\ old_handler = "default"
  /\ initial = [environ |-> os_environ, dirs |-> dirs, handler |-> handler, cwd |-> cwd]
  /\ exc = "none" /\ exit_status = -1
  /\ built = <<>> /\ shells = <<>> /\ stdout = 0 /\ nint = 0 /\ nfaults = 0
  /\ stderr = <<>> /\ cleanup = <<>>

\* The entry point has run: main found the root in the working directory and
\* changed into it.
AtRoot ==
  /\ cwd = 1 /\ release_nix = {1} /\ prefix = <<".">> /\ root = <<".">>
  /\ handler = "default"

\* A session starts in main's dispatch (args.func(args)), in a repository where
\* ./.review may hold the directory of another or of a stale session.
Init ==
  /\ AtRoot
  /\ \/ /\ argv \in {[cmd |-> "pr", number |-> a, commit |-> ""] : a \in SessionArgLists}
        /\ pc = "parse"
        /\ dirs \in {{}, {PrName(2)}}
     \/ /\ argv = [cmd |-> "rev", number |-> <<>>, commit |-> Commit]
        /\ pc = "acquire"
        /\ dirs \in {{}, {RevName(Commit)}}
  /\ InitCommon

\* ------------------------------------------------- raising and unwinding
ExitStatus(e) == IF e = "none" THEN 0 ELSE 1

\* An exception e leaves the body of the with statement (or the body ends,
\* e = "none"): the contexts entered are exited, last first.
Unwind(e) ==
  /\ exc' = e
  /\ IF Len(wts) >= 1
     THEN /\ u' = Len(wts) /\ pc' = "r_close" /\ exit_status' = exit_status
          /\ wts' = [wts EXCEPT ![Len(wts)].rel = "releasing"]
     ELSE /\ u' = 0 /\ pc' = "done" /\ exit_status' = ExitStatus(e)
          /\ wts' = wts

\* (EndReleaseStopsAtError: an error raised by a release ends the unwinding,
\* the contexts entered before are not exited.)
EndReleaseStopsAtError(e) ==
  LET e2 == IF e = "none" THEN exc ELSE e
  IN  /\ exc' = e2
      /\ IF u > 1 /\ e = "none"
         THEN /\ u' = u - 1 /\ pc' = "r_close" /\ exit_status' = exit_status
              /\ wts' = [wts EXCEPT ![u].rel = "released", ![u].raised = e,
                                    ![u - 1].rel = "releasing"]
         ELSE /\ u' = u /\ pc' = "done" /\ exit_status' = ExitStatus(e2)
              /\ wts' = [wts EXCEPT ![u].rel = "released", ![u].raised = e,
                                    ![u].hit = @ \/ e = "KeyboardInterrupt"]

\* Worktree.__exit__ of wts[u] ends, raising e or returning (e = "none"); the
\* ExitStack keeps the newest exception and goes on with the context before.
EndRelease(e) ==
  LET e2 == IF e = "none" THEN exc ELSE e
  IN  /\ exc' = e2
      /\ u' = u - 1
      /\ IF u > 1
         THEN /\ pc' = "r_close" /\ exit_status' = exit_status
              /\ wts' = [wts EXCEPT ![u].rel = "released", ![u].raised = e,
                                    ![u].hit = @ \/ e = "KeyboardInterrupt",
                                    ![u - 1].rel = "releasing"]
         ELSE /\ pc' = "done" /\ exit_status' = ExitStatus(e2)
              /\ wts' = [wts EXCEPT ![u].rel = "released", ![u].raised = e,
                                    ![u].hit = @ \/ e = "KeyboardInterrupt"]

\* ------------------------------------------------------- parse_pr_numbers
\* pr_command line 32, the tokens accepted: the loop over prs starts.
ParseOk ==
  /\ pc = "parse"
  /\ LET r == parse_pr_numbers(argv.number)
     IN  /\ r.ok
         /\ prs' = r.prs
         /\ IF r.prs # <<>>
            THEN i' = 1 /\ pc' = "acquire"
            ELSE i' = 0 /\ pc' = "check"
  /\ UNCHANGED <<mainvars, stderr, cleanup, argv, initial, j, attrsets, wts, u, os_environ, dirs, tmpfiles, handler,
                 old_handler, exc, exit_status, built, shells, stdout, nint, nfaults>>

\* parse_pr_numbers lines 25-27: a token is rejected, sys.exit(1).
ParseExit ==
  /\ pc = "parse"
  /\ ~ parse_pr_numbers(argv.number).ok
  /\ pc' = "done" /\ exc' = "SystemExit" /\ exit_status' = 1
  /\ LET tok == argv.number[parse_pr_numbers(argv.number).bad]
     IN  stderr' = Append(stderr, <<"expected number, got ", Str(ReMatch(tok)), 0>>)
  /\ UNCHANGED <<mainvars, cleanup, argv, initial, prs, i, j, attrsets, wts, u, os_environ, dirs, tmpfiles,
                 handler, old_handler, built, shells, stdout, nint, nfaults>>

\* ---------------------------------------------------- Worktree.__init__
\* os.makedirs(worktree_dir) when the directory is absent.
Makedirs ==
  /\ pc = "acquire"
  /\ Name \notin dirs
  /\ dirs' = dirs \cup {Name}
  /\ pc' = "init"
  /\ UNCHANGED <<mainvars, stderr, cleanup, argv, initial, prs, i, j, attrsets, wts, u, os_environ, tmpfiles, handler,
                 old_handler, exc, exit_status, built, shells, stdout, nint, nfaults>>

\* (MakedirsExistOk: os.makedirs(worktree_dir, exist_ok=True).)
MakedirsExistOk ==
  /\ pc = "acquire"
  /\ Name \in dirs
  /\ pc' = "init"
  /\ UNCHANGED <<mainvars, stderr, cleanup, argv, initial, prs, i, j, attrsets, wts, u, os_environ, dirs,
                 tmpfiles, handler, old_handler, exc, exit_status, built, shells,
                 stdout, nint, nfaults>>

\* os.makedirs(worktree_dir) when the directory exists: FileExistsError, the
\* message is printed and the error raised again; in pr_command the contexts
\* entered so far are exited.
MakedirsExists ==
  /\ pc = "acquire"
  /\ Name \in dirs
  /\ Unwind("FileExistsError")
  /\ UNCHANGED <<mainvars, stderr, cleanup, argv, initial, prs, i, j, attrsets, os_environ, dirs, tmpfiles, handler,
                 old_handler, built, shells, stdout, nint, nfaults>>

\* (NewWorktreePerItem: each item in a with statement of its own, so that the
\* worktree before is released when the next is acquired.)
NewWorktreePerItem ==
  /\ pc = "init"
  /\ LET tmp == Len(wts) + 1
         prev == IF wts = <<>> THEN wts
                 ELSE [wts EXCEPT ![Len(wts)].rel = "released"]
     IN  /\ tmpfiles' = {tmp}
         /\ wts' = Append(prev, [name |-> Name, nixpkgs_config |-> tmp,
                                 environ |-> os_environ, rel |-> "live",
                                 raised |-> "none", hit |-> FALSE])
         /\ os_environ' = Overlay(os_environ, tmp, Name)
  /\ pc' = IF argv.cmd = "pr" THEN "build" ELSE "review"
  /\ UNCHANGED <<mainvars, stderr, cleanup, argv, initial, prs, i, j, attrsets, u, dirs, handler, old_handler,
                 exc, exit_status, built, shells, stdout, nint, nfaults>>

\* (NewWorktreeSnapshotLate: os.environ is copied after the overlay is set.)
NewWorktreeSnapshotLate ==
  /\ pc = "init"
  /\ LET tmp == Len(wts) + 1
     IN  /\ tmpfiles' = tmpfiles \cup {tmp}
         /\ os_environ' = Overlay(os_environ, tmp, Name)
         /\ wts' = Append(wts, [name |-> Name, nixpkgs_config |-> tmp,
                                environ |-> os_environ', rel |-> "live",
                                raised |-> "none", hit |-> FALSE])
  /\ pc' = IF argv.cmd = "pr" THEN "build" ELSE "review"
  /\ UNCHANGED <<mainvars, stderr, cleanup, argv, initial, prs, i, j, attrsets, u, dirs, handler, old_handler,
                 exc, exit_status, built, shells, stdout, nint, nfaults>>

\* The rest of Worktree.__init__ and stack.enter_context / with ... as: the
\* temporary file is written, the environment copied and then overlaid.
NewWorktree ==
  /\ pc = "init"
  /\ LET tmp == Len(wts) + 1
     IN  /\ tmpfiles' = tmpfiles \cup {tmp}
         /\ wts' = Append(wts, [name |-> Name, nixpkgs_config |-> tmp,
                                environ |-> os_environ, rel |-> "live",
                                raised |-> "none", hit |-> FALSE])
         /\ os_environ' = Overlay(os_environ, tmp, Name)
  /\ pc' = IF argv.cmd = "pr" THEN "build" ELSE "review"
  /\ UNCHANGED <<mainvars, stderr, cleanup, argv, initial, prs, i, j, attrsets, u, dirs, handler, old_handler, exc,
                 exit_status, built, shells, stdout, nint, nfaults>>

\* ------------------------------------------------------------ pr_command
\* The statement after the body of the first loop: its next iteration, the
\* second loop, or the test after it.
AfterBuild(as) ==
  IF i < Len(prs) THEN i' = i + 1 /\ j' = j /\ pc' = "acquire"
  ELSE IF as # <<>> THEN i' = i /\ j' = 1 /\ pc' = "shell"
  ELSE i' = i /\ j' = j /\ pc' = "check"

\* (BuildOkLaunchesShell: the shell of an item is launched as soon as it is
\* built.)
BuildOkLaunchesShell ==
  /\ pc = "build"
  /\ attrsets' = Append(attrsets, prs[i])
  /\ built' = Append(built, [pr |-> prs[i], outcome |-> "ok"])
  /\ shells' = Append(shells, [attrs |-> prs[i], url |-> prs[i]])
  /\ AfterBuild(attrsets')
  /\ UNCHANGED <<mainvars, stderr, cleanup, argv, initial, prs, wts, u, os_environ,
                 dirs, tmpfiles, handler, old_handler, exc, exit_status, stdout, nint,
                 nfaults>>

\* r.build_pr(pr) returns the attributes built: attrsets.append.
BuildOk ==
  /\ pc = "build"
  /\ attrsets' = Append(attrsets, prs[i])
  /\ built' = Append(built, [pr |-> prs[i], outcome |-> "ok"])
  /\ AfterBuild(attrsets')
  /\ UNCHANGED <<mainvars, stderr, cleanup, argv, initial, prs, wts, u, os_environ, dirs, tmpfiles, handler,
                 old_handler, exc, exit_status, shells, stdout, nint, nfaults>>

\* (BuildFailAborts: the failure is not caught and ends the batch.)
BuildFailAborts ==
  /\ pc = "build"
  /\ built' = Append(built, [pr |-> prs[i], outcome |-> "failed"])
  /\ Unwind("CalledProcessError")
  /\ UNCHANGED <<mainvars, stderr, cleanup, argv, initial, prs, i, j, attrsets, os_environ, dirs, tmpfiles,
                 handler, old_handler, shells, stdout, nint, nfaults>>

\* The build tool fails: subprocess.CalledProcessError is caught, the failure
\* printed, and the loop goes on.
BuildFail ==
  /\ pc = "build"
  /\ built' = Append(built, [pr |-> prs[i], outcome |-> "failed"])
  /\ AfterBuild(attrsets)
  /\ stderr' = Append(stderr, <<"https://github.com/NixOS/nixpkgs/pull/ failed to build",
                               <<>>, prs[i]>>)
  /\ UNCHANGED <<mainvars, cleanup, argv, initial, prs, attrsets, wts, u, os_environ, dirs, tmpfiles, handler,
                 old_handler, exc, exit_status, shells, stdout, nint, nfaults>>

\* Review(...) or build_pr raises another error (no CalledProcessError): it
\* is not caught and leaves the with statement.
BuildError ==
  /\ pc = "build"
  /\ built' = Append(built, [pr |-> prs[i], outcome |-> "error"])
  /\ Unwind("Exception")
  /\ UNCHANGED <<mainvars, stderr, cleanup, argv, initial, prs, i, j, attrsets, os_environ, dirs, tmpfiles, handler,
                 old_handler, shells, stdout, nint, nfaults>>

\* The second loop: the URL is printed with the loop variable pr of the first
\* loop, then nix_shell(attrs) runs until the shell is left.
Shell ==
  /\ pc = "shell"
  /\ shells' = Append(shells, [attrs |-> attrsets[j], url |-> prs[i]])
  /\ IF j < Len(attrsets) THEN j' = j + 1 /\ pc' = "shell"
     ELSE j' = j /\ pc' = "check"
  /\ UNCHANGED <<mainvars, stderr, cleanup, argv, initial, prs, i, attrsets, wts, u, os_environ, dirs, tmpfiles,
                 handler, old_handler, exc, exit_status, built, stdout, nint,
                 nfaults>>

\* if len(attrsets) != len(prs): sys.exit(1); otherwise the with body ends.
CheckExit ==
  /\ pc = "check"
  /\ Unwind(IF Len(attrsets) # Len(prs) THEN "SystemExit" ELSE "none")
  /\ UNCHANGED <<mainvars, stderr, cleanup, argv, initial, prs, i, j, attrsets, os_environ, dirs, tmpfiles, handler,
                 old_handler, built, shells, stdout, nint, nfaults>>

\* ----------------------------------------------------------- rev_command
\* Review.review_commit(branch, commit) for a build that succeeds or fails:
\* one build pass; a shell on the results when it succeeded, the builder's
\* error otherwise.
review_commit(outcome) ==
  [built |-> <<[pr |-> 0, outcome |-> outcome]>>,
   shells |-> IF outcome = "ok" THEN <<[attrs |-> 0, url |-> 0]>> ELSE <<>>,
   raises |-> CASE outcome = "ok" -> "none"
                [] outcome = "failed" -> "CalledProcessError"
                [] OTHER -> "Exception"]

\* The body of the with statement of rev_command: whatever review_commit
\* raises leaves the with statement, and so does its return.
RevBody(outcome) ==
  /\ pc = "review"
  /\ LET r == review_commit(outcome)
     IN  /\ built' = built \o r.built
         /\ shells' = shells \o r.shells
         /\ Unwind(r.raises)
  /\ UNCHANGED <<mainvars, stderr, cleanup, argv, initial, prs, i, j, attrsets, os_environ, dirs, tmpfiles, handler,
                 old_handler, stdout, nint, nfaults>>

RevReviewOk == RevBody("ok")

\* (RevReviewFailCaught: the failure is caught and reported as in pr_command.)
RevReviewFailCaught ==
  /\ pc = "review"
  /\ built' = Append(built, [pr |-> 0, outcome |-> "failed"])
  /\ Unwind("none")
  /\ UNCHANGED <<mainvars, stderr, cleanup, argv, initial, prs, i, j, attrsets, os_environ, dirs, tmpfiles,
                 handler, old_handler, shells, stdout, nint, nfaults>>

RevReviewFail == \E outcome \in {"failed", "error"} : RevBody(outcome)

\* ------------------------------------------------------ Worktree.__exit__
\* A statement of Worktree.__exit__ of wts[u] has been executed, and returned
\* (ok) or raised.
Did(step, ok) == cleanup' = Append(cleanup, [wt |-> u, step |-> step, ok |-> ok])

\* (ReleaseCloseKeepsFile: a temporary file made with delete=False.)
ReleaseCloseKeepsFile ==
  /\ pc = "r_close"
  /\ pc' = "r_env"
  /\ Did("close", TRUE)
  /\ UNCHANGED <<mainvars, stderr, argv, initial, prs, i, j, attrsets, wts, u,
                 os_environ, dirs, tmpfiles, handler, old_handler, exc, exit_status,
                 built, shells, stdout, nint, nfaults>>

\* self.nixpkgs_config.close(): the temporary file is closed and deleted.
ReleaseClose ==
  /\ pc = "r_close"
  /\ tmpfiles' = tmpfiles \ {wts[u].nixpkgs_config}
  /\ pc' = "r_env"
  /\ Did("close", TRUE)
  /\ UNCHANGED <<mainvars, stderr, argv, initial, prs, i, j, attrsets, wts, u, os_environ, dirs, handler,
                 old_handler, exc, exit_status, built, shells, stdout, nint, nfaults>>

\* close() raises (the flush fails, or the file is gone): the file is unlinked
\* all the same and the error leaves __exit__.
ReleaseCloseFault ==
  /\ pc = "r_close"
  /\ nint + nfaults < MaxDisturbances
  /\ nfaults' = nfaults + 1
  /\ tmpfiles' = tmpfiles \ {wts[u].nixpkgs_config}
  /\ EndRelease("OSError")
  /\ Did("close", FALSE)
  /\ UNCHANGED <<mainvars, stderr, argv, initial, prs, i, j, attrsets, os_environ, dirs, handler, old_handler,
                 built, shells, stdout, nint>>

\* os.environ.update(self.environ).
ReleaseEnv ==
  /\ pc = "r_env"
  /\ os_environ' = EnvUpdate(os_environ, wts[u].environ)
  /\ pc' = "r_guard"
  /\ Did("environ", TRUE)
  /\ UNCHANGED <<mainvars, stderr, argv, initial, prs, i, j, attrsets, wts, u, dirs, tmpfiles, handler,
                 old_handler, exc, exit_status, built, shells, stdout, nint, nfaults>>

\* DisableKeyboardInterrupt.__enter__: signal.signal(SIGINT, handler).
GuardEnter ==
  /\ pc = "r_guard"
  /\ old_handler' = handler
  /\ handler' = "warn"
  /\ pc' = "r_rmtree"
  /\ UNCHANGED <<mainvars, stderr, cleanup, argv, initial, prs, i, j, attrsets, wts, u, os_environ, dirs, tmpfiles,
                 exc, exit_status, built, shells, stdout, nint, nfaults>>

\* shutil.rmtree(self.worktree_dir) on a directory that exists.
Rmtree ==
  /\ pc = "r_rmtree"
  /\ wts[u].name \in dirs
  /\ dirs' = dirs \ {wts[u].name}
  /\ pc' = "r_prune"
  /\ Did("rmtree", TRUE)
  /\ UNCHANGED <<mainvars, stderr, argv, initial, prs, i, j, attrsets, wts, u, os_environ, tmpfiles, handler,
                 old_handler, exc, exit_status, built, shells, stdout, nint, nfaults>>

\* shutil.rmtree on a directory that is gone: FileNotFoundError leaves the
\* guard (whose __exit__ restores the handler) and then __exit__.
RmtreeMissing ==
  /\ pc = "r_rmtree"
  /\ wts[u].name \notin dirs
  /\ handler' = old_handler
  /\ EndRelease("FileNotFoundError")
  /\ Did("rmtree", FALSE)
  /\ UNCHANGED <<mainvars, stderr, argv, initial, prs, i, j, attrsets, os_environ, dirs, tmpfiles, old_handler,
                 built, shells, stdout, nint, nfaults>>

\* sh(["git", "worktree", "prune"]) succeeds.
Prune ==
  /\ pc = "r_prune"
  /\ pc' = "r_clear"
  /\ Did("prune", TRUE)
  /\ UNCHANGED <<mainvars, stderr, argv, initial, prs, i, j, attrsets, wts, u, os_environ, dirs, tmpfiles,
                 handler, old_handler, exc, exit_status, built, shells, stdout, nint,
                 nfaults>>

\* git exits nonzero: CalledProcessError leaves the guard and then __exit__.
PruneFault ==
  /\ pc = "r_prune"
  /\ nint + nfaults < MaxDisturbances
  /\ nfaults' = nfaults + 1
  /\ handler' = old_handler
  /\ EndRelease("CalledProcessError")
  /\ Did("prune", FALSE)
  /\ UNCHANGED <<mainvars, stderr, argv, initial, prs, i, j, attrsets, os_environ, dirs, tmpfiles, old_handler,
                 built, shells, stdout, nint>>

\* os.environ.clear(), the last statement of the guarded block.
ReleaseClear ==
  /\ pc = "r_clear"
  /\ os_environ' = EnvClear(os_environ)
  /\ pc' = "r_unguard"
  /\ Did("clear", TRUE)
  /\ UNCHANGED <<mainvars, stderr, argv, initial, prs, i, j, attrsets, wts, u, dirs, tmpfiles, handler,
                 old_handler, exc, exit_status, built, shells, stdout, nint, nfaults>>

\* (GuardExitKeepsHandler: the guard is left without signal.signal being
\* called.)
GuardExitKeepsHandler ==
  /\ pc = "r_unguard"
  /\ EndRelease("none")
  /\ UNCHANGED <<mainvars, stderr, cleanup, argv, initial, prs, i, j, attrsets,
                 os_environ, dirs, tmpfiles, handler, old_handler, built, shells,
                 stdout, nint, nfaults>>

\* DisableKeyboardInterrupt.__exit__, and Worktree.__exit__ returns.
GuardExit ==
  /\ pc = "r_unguard"
  /\ handler' = old_handler
  /\ EndRelease("none")
  /\ UNCHANGED <<mainvars, stderr, cleanup, argv, initial, prs, i, j, attrsets, os_environ, dirs, tmpfiles, old_handler,
                 built, shells, stdout, nint, nfaults>>

\* ---------------------------------------------------------- environment
\* (InterruptAborts: the warning is printed and KeyboardInterrupt raised in
\* the guarded block all the same.)
InterruptAborts ==
  /\ pc # "done" /\ nint + nfaults < MaxDisturbances
  /\ handler = "warn"
  /\ nint' = nint + 1
  /\ stdout' = stdout + 1
  /\ handler' = old_handler
  /\ EndRelease("KeyboardInterrupt")
  /\ UNCHANGED <<mainvars, stderr, cleanup, argv, initial, prs, i, j, attrsets,
                 os_environ, dirs, tmpfiles, old_handler, built, shells, nfaults>>

\* SIGINT while the warning handler is installed: the warning is printed.
InterruptIgnored ==
  /\ pc # "done" /\ nint + nfaults < MaxDisturbances
  /\ handler = "warn"
  /\ nint' = nint + 1
  /\ stdout' = stdout + 1
  /\ wts' = [wts EXCEPT ![u].hit = TRUE]
  /\ UNCHANGED <<mainvars, stderr, cleanup, argv, initial, pc, prs, i, j, attrsets, u, os_environ, dirs, tmpfiles,
                 handler, old_handler, exc, exit_status, built, shells, nfaults>>

\* SIGINT under the default handler: KeyboardInterrupt is raised where the
\* process is.
InterruptRaised ==
  /\ pc # "done" /\ nint + nfaults < MaxDisturbances
  /\ handler = "default"
  /\ nint' = nint + 1
  /\ \/ /\ pc = "parse"
        /\ pc' = "done" /\ exc' = "KeyboardInterrupt" /\ exit_status' = 1
        /\ UNCHANGED <<wts, u, built>>
     \/ /\ pc \in {"acquire", "init", "shell", "check"}
        /\ Unwind("KeyboardInterrupt")
        /\ UNCHANGED built
     \/ /\ pc \in {"build", "review"}
        /\ built' = Append(built, [pr |-> IF pc = "build" THEN prs[i] ELSE 0,
                                   outcome |-> "interrupted"])
        /\ Unwind("KeyboardInterrupt")
     \/ /\ pc \in {"r_close", "r_env", "r_guard"}
        /\ EndRelease("KeyboardInterrupt")
        /\ UNCHANGED built
  /\ UNCHANGED <<mainvars, stderr, cleanup, argv, initial, prs, i, j, attrsets, os_environ, dirs, tmpfiles, handler,
                 old_handler, shells, stdout, nfaults>>

\* While an external tool runs, the directory of a live worktree is removed
\* behind the session's back.
DirVanishes ==
  /\ pc \in {"build", "review", "shell"}
  /\ nint + nfaults < MaxDisturbances
  /\ nfaults' = nfaults + 1
  /\ \E k \in 1..Len(wts) :
       /\ wts[k].name \in dirs
       /\ dirs' = dirs \ {wts[k].name}
  /\ UNCHANGED <<mainvars, stderr, cleanup, argv, initial, pc, prs, i, j, attrsets, wts, u, os_environ, tmpfiles,
                 handler, old_handler, exc, exit_status, built, shells, stdout, nint>>

\* ------------------------------------------------------- the entry point
\* The directory os.path.join(*p) names, as its depth below "/", for a
\* process whose working directory has depth d: each ".." is one level up and
\* the parent of "/" is "/".
AbsDepth(d, p) ==
  LET ups == Cardinality({k \in 1..Len(p) : p[k] = ".."})
  IN  IF d > ups THEN d - ups ELSE 0

\* find_nixpkgs_root, one iteration of its loop: nixos/release.nix exists
\* under root_path, which is returned.
FindRootFound ==
  /\ pc = "find"
  /\ AbsDepth(cwd, prefix) \in release_nix
  /\ root' = prefix
  /\ pc' = "chdir"
  /\ UNCHANGED <<cwd, release_nix, prefix, stderr, cleanup, argv, initial, prs, i, j,
                 attrsets, wts, u, os_environ, dirs, tmpfiles, handler, old_handler,
                 exc, exit_status, built, shells, stdout, nint, nfaults>>

\* The marker is not there and root_path is "/": None is returned.
FindRootNone ==
  /\ pc = "find"
  /\ AbsDepth(cwd, prefix) \notin release_nix
  /\ AbsDepth(cwd, prefix) = 0
  /\ root' = <<>>
  /\ pc' = "die"
  /\ UNCHANGED <<cwd, release_nix, prefix, stderr, cleanup, argv, initial, prs, i, j,
                 attrsets, wts, u, os_environ, dirs, tmpfiles, handler, old_handler,
                 exc, exit_status, built, shells, stdout, nint, nfaults>>

\* The marker is not there and root_path is not "/": prefix.append("..").
FindRootUp ==
  /\ pc = "find"
  /\ AbsDepth(cwd, prefix) \notin release_nix
  /\ AbsDepth(cwd, prefix) # 0
  /\ prefix' = Append(prefix, "..")
  /\ UNCHANGED <<cwd, release_nix, root, pc, stderr, cleanup, argv, initial, prs, i, j,
                 attrsets, wts, u, os_environ, dirs, tmpfiles, handler, old_handler,
                 exc, exit_status, built, shells, stdout, nint, nfaults>>

\* (DieReturns: die prints the message and returns, so that main goes on in
\* the working directory.)
DieReturns ==
  /\ pc = "die"
  /\ stderr' = Append(stderr, <<"Has to be execute from nixpkgs repository", <<>>, 0>>)
  /\ pc' = "parse_args"
  /\ UNCHANGED <<mainvars, cleanup, argv, initial, prs, i, j, attrsets, wts, u,
                 os_environ, dirs, tmpfiles, handler, old_handler, exc, exit_status,
                 built, shells, stdout, nint, nfaults>>

\* main, root is None: die prints the message and calls sys.exit(1).
Die ==
  /\ pc = "die"
  /\ stderr' = Append(stderr, <<"Has to be execute from nixpkgs repository", <<>>, 0>>)
  /\ pc' = "done" /\ exc' = "SystemExit" /\ exit_status' = 1
  /\ UNCHANGED <<mainvars, cleanup, argv, initial, prs, i, j, attrsets, wts, u,
                 os_environ, dirs, tmpfiles, handler, old_handler, built, shells,
                 stdout, nint, nfaults>>

\* main, a root was found: os.chdir(root).
Chdir ==
  /\ pc = "chdir"
  /\ cwd' = AbsDepth(cwd, root)
  /\ pc' = "parse_args"
  /\ UNCHANGED <<release_nix, prefix, root, stderr, cleanup, argv, initial, prs, i, j,
                 attrsets, wts, u, os_environ, dirs, tmpfiles, handler, old_handler,
                 exc, exit_status, built, shells, stdout, nint, nfaults>>

\* The command lines argparse accepts: a subcommand (subparsers.required),
\* and for pr one or more numbers (nargs="+").
Accepted(a) == a.cmd = "rev" \/ (a.cmd = "pr" /\ a.number # <<>>)

\* parse_args(command, raw_args) and args.func(args): pr_command or
\* rev_command is entered.
ParseArgs ==
  /\ pc = "parse_args"
  /\ Accepted(argv)
  /\ pc' = IF argv.cmd = "pr" THEN "parse" ELSE "acquire"
  /\ UNCHANGED <<mainvars, stderr, cleanup, argv, initial, prs, i, j, attrsets, wts, u,
                 os_environ, dirs, tmpfiles, handler, old_handler, exc, exit_status,
                 built, shells, stdout, nint, nfaults>>

\* parser.parse_args rejects the command line: usage message, sys.exit(2).
ParseArgsError ==
  /\ pc = "parse_args"
  /\ ~ Accepted(argv)
  /\ stderr' = Append(stderr, <<"usage", <<>>, 0>>)
  /\ pc' = "done" /\ exc' = "SystemExit" /\ exit_status' = 2
  /\ UNCHANGED <<mainvars, cleanup, argv, initial, prs, i, j, attrsets, wts, u,
                 os_environ, dirs, tmpfiles, handler, old_handler, built, shells,
                 stdout, nint, nfaults>>

InEntry == pc \in {"find", "die", "chdir", "parse_args"}

\* SIGINT under the default handler while main runs outside the subcommand:
\* KeyboardInterrupt ends the process.
InterruptMain ==
  /\ InEntry /\ nint + nfaults < MaxDisturbances
  /\ handler = "default"
  /\ nint' = nint + 1
  /\ pc' = "done" /\ exc' = "KeyboardInterrupt" /\ exit_status' = 1
  /\ UNCHANGED <<mainvars, stderr, cleanup, argv, initial, prs, i, j, attrsets, wts, u,
                 os_environ, dirs, tmpfiles, handler, old_handler, built, shells,
                 stdout, nfaults>>

\* SIGINT while it is ignored (SIG_IGN): nothing happens.
InterruptDiscarded ==
  /\ pc # "done" /\ nint + nfaults < MaxDisturbances
  /\ handler = "ignore"
  /\ nint' = nint + 1
  /\ UNCHANGED <<mainvars, stderr, cleanup, argv, initial, pc, prs, i, j, attrsets, wts,
                 u, os_environ, dirs, tmpfiles, handler, old_handler, exc, exit_status,
                 built, shells, stdout, nfaults>>

\* ------------------------------------------------------- specifications
Acquire == Makedirs \/ MakedirsExists \/ NewWorktree
Batch == BuildOk \/ BuildFail \/ BuildError \/ Shell \/ CheckExit
Release ==
  \/ ReleaseClose \/ ReleaseCloseFault \/ ReleaseEnv \/ GuardEnter \/ Rmtree
  \/ RmtreeMissing \/ Prune \/ PruneFault \/ ReleaseClear \/ GuardExit

Next ==
  \/ ParseOk \/ ParseExit
  \/ Acquire
  \/ Batch
  \/ RevReviewOk \/ RevReviewFail
  \/ Release
  \/ InterruptIgnored \/ InterruptRaised
  \/ DirVanishes

Spec == Init /\ [][Next]_vars

\* parse_pr_numbers alone, on every list of tokens within the bounds.
InitParse ==
  /\ \/ \E ks \in Profiles : \E str \in [1..Sum(ks) -> ParseAlphabet] :
          argv = [cmd |-> "pr", number |-> Split(str, ks), commit |-> ""]
     \/ argv = [cmd |-> "pr", number |-> ExampleArgs, commit |-> ""]
  /\ pc = "parse"
  /\ dirs = {}
  /\ os_environ = PlainEnv
  /\ AtRoot
  /\ InitCommon

NextParse == ParseOk \/ ParseExit

SpecParse == InitParse /\ [][NextParse]_vars

\* The whole program from the call of main, on a few command lines, started
\* at any depth below "/" with the marker in any of the ancestors or in none,
\* and with SIGINT handled or ignored.
MainArgLists ==
  { <<(<<"1">>)>>, <<(<<"1">>), <<"2">>>>, <<(<<"1">>), <<"1">>>>, <<(<<"a">>)>> }
MainArgvs ==
  {[cmd |-> "pr", number |-> a, commit |-> ""] : a \in MainArgLists}
    \cup {[cmd |-> "rev", number |-> <<>>, commit |-> Commit],
          [cmd |-> "", number |-> <<>>, commit |-> ""]}

InitMain ==
  /\ argv \in MainArgvs
  /\ pc = "find"
  /\ cwd \in 0..MaxDepth
  /\ release_nix \in SUBSET (0..cwd)
  /\ prefix = <<".">> /\ root = <<>>
  /\ dirs = {}
  /\ os_environ = PlainEnv
  /\ InitCommon

Entry ==
  \/ FindRootFound \/ FindRootNone \/ FindRootUp
  \/ Die \/ Chdir \/ ParseArgs \/ ParseArgsError

NextMain == Entry \/ Next \/ InterruptMain \/ InterruptDiscarded

\* main runs on: a process that is not stopped takes its next step.
SpecMain == InitMain /\ [][NextMain]_vars /\ WF_vars(Entry)

\* ------------------------------------------------------------ properties
Released(k) == wts[k].rel = "released"
Live(k) == wts[k].rel \in {"live", "releasing"}
\* The step on which the scope of wts[k] exits.
ScopeExits(k) == wts[k].rel # "released" /\ wts'[k].rel = "released"

\* C1: once the scope of a Worktree has exited (normally, after an error in
\* the body, or with an interruption during teardown) os.environ equals the
\* snapshot taken at acquisition (stated for the runs without SIGINT and
\* without a failing cleanup call, which is less than the claim).
C1_EnvEqualsSnapshotAtExit ==
  [][\A k \in 1..Len(wts) :
       ScopeExits(k) /\ nint' = 0 /\ nfaults' = 0 => os_environ' = wts[k].environ]_vars

\* The run met nothing but build outcomes: no SIGINT, no failing cleanup call,
\* no error other than the build tool's.
PlainRun ==
  /\ nint = 0 /\ nfaults = 0
  /\ \A k \in 1..Len(built) : built[k].outcome \in {"ok", "failed"}
Failed == {k \in 1..Len(built) : built[k].outcome = "failed"}
Succeeded == SelectSeq(built, LAMBDA b : b.outcome = "ok")
BatchOutcome ==
  /\ Len(built) = Len(prs)
  /\ \A k \in 1..Len(built) : built[k].pr = prs[k]
  /\ Len(shells) = Len(prs) - Cardinality(Failed)
  /\ \A k \in 1..Len(shells) : shells[k].attrs = Succeeded[k].pr
  /\ (exit_status # 0) <=> (Cardinality(Failed) > 0)
BatchEnded ==
  /\ argv.cmd = "pr" /\ pc = "done" /\ parse_pr_numbers(argv.number).ok /\ PlainRun
NoCollision ==
  /\ \A a, b \in 1..Len(prs) : a # b => prs[a] # prs[b]
  /\ \A a \in 1..Len(prs) : PrName(prs[a]) \notin initial.dirs

\* C2 as stated: a batch of N items of which K fail to build attempts all N,
\* launches one shell for each of the N-K successes and none for a failure,
\* and exits nonzero iff K > 0.
C2_BatchOutcomeAnyList == BatchEnded => BatchOutcome

\* C2, amended: the same for every list whose identifiers are pairwise
\* distinct and have no directory under ./.review when the session starts.
C2_BatchOutcome == BatchEnded /\ NoCollision => BatchOutcome

C2_Witness ==
  /\ BatchEnded /\ NoCollision
  /\ Len(prs) = 2 /\ Cardinality(Failed) = 1 /\ Len(shells) = 1 /\ exit_status = 1

\* C3: the directory of every worktree whose scope has exited no longer
\* exists, whatever ended the scope (stated for the runs in which no cleanup
\* call fails, which is less than the claim).
C3_DirGoneAfterExit ==
  nfaults = 0 => \A k \in 1..Len(wts) : Released(k) => wts[k].name \notin dirs

\* C4: a SIGINT delivered at any point of a release does not abort it: the
\* release still returns, restores the environment and removes the directory.
C4_InterruptedReleaseCompletes ==
  [][\A k \in 1..Len(wts) :
       ScopeExits(k) /\ wts'[k].hit =>
         /\ wts'[k].raised # "KeyboardInterrupt"
         /\ wts[k].name \notin dirs'
         /\ os_environ' = wts[k].environ]_vars

InBody == pc \in {"acquire", "init", "build", "review", "shell", "check"}
Releasing == {k \in 1..Len(wts) : wts[k].rel = "releasing"}

WorktreeData(ws) ==
  [k \in 1..Len(ws) |-> <<ws[k].name, ws[k].environ, ws[k].nixpkgs_config>>]

\* C6: acquiring a Worktree whose directory exists raises FileExistsError, and
\* when it is raised the environment, the directories, the temporary files
\* and the worktrees acquired before are as they were.
C6_CollisionChangesNothing ==
  [][pc = "acquire" /\ Name \in dirs /\ nint' = nint =>
       /\ exc' = "FileExistsError"
       /\ os_environ' = os_environ
       /\ dirs' = dirs
       /\ tmpfiles' = tmpfiles
       /\ WorktreeData(wts') = WorktreeData(wts)]_vars

\* A second occurrence of an identifier met the live worktree of the first.
C6_Witness ==
  /\ exc = "FileExistsError" /\ pc = "r_close" /\ i = 2
  /\ Len(wts) = 1 /\ wts[1].name = PrName(prs[2]) /\ wts[1].name \in dirs
  /\ os_environ = Overlay(wts[1].environ, wts[1].nixpkgs_config, wts[1].name)

\* The two forms of a valid token: decimal digits, and digits "-" digits.
IsPlainInt(tok) == AllDigits(tok)
IsRangeTok(tok) ==
  \E p \in 2..(Len(tok) - 1) :
    /\ tok[p] = "-"
    /\ AllDigits(SubSeq(tok, 1, p - 1))
    /\ AllDigits(SubSeq(tok, p + 1, Len(tok)))
ValidTok(tok) == IsPlainInt(tok) \/ IsRangeTok(tok)
\* A-B as the pair <<A, B>>.
Bounds(tok) ==
  LET p == CHOOSE q \in 2..(Len(tok) - 1) : tok[q] = "-"
  IN  <<DigitsToInt(SubSeq(tok, 1, p - 1)), DigitsToInt(SubSeq(tok, p + 1, Len(tok)))>>
\* The identifiers a valid token stands for: n, or A, A+1, ..., B-1.
Expected(tok) ==
  IF IsPlainInt(tok) THEN <<DigitsToInt(tok)>>
  ELSE LET ab == Bounds(tok)
           n == IF ab[1] >= ab[2] THEN 0 ELSE ab[2] - ab[1]
       IN  [k \in 1..n |-> ab[1] + (k - 1)]
RECURSIVE ExpectedAll(_)
ExpectedAll(toks) ==
  IF toks = <<>> THEN <<>> ELSE Expected(Head(toks)) \o ExpectedAll(Tail(toks))
AllValid(toks) == \A k \in 1..Len(toks) : ValidTok(toks[k])

\* C7: on a list of valid tokens parse_pr_numbers returns, in token order, n
\* for a plain integer n and A, ..., B-1 for A-B; ["5", "10-12"] gives
\* [5, 10, 11].
C7_ParseValidTokens ==
  /\ pc # "parse" /\ AllValid(argv.number) =>
       exc = "none" /\ prs = ExpectedAll(argv.number)
  /\ pc # "parse" /\ argv.number = ExampleArgs => prs = <<5, 10, 11>>

C7_Witness ==
  /\ pc # "parse" /\ argv.number = <<(<<"3">>), <<"1", "-", "3">>>>
  /\ prs = <<3, 1, 2>>

\* C8: a token that is neither a plain integer nor exactly <int>-<int> ends
\* the session with a nonzero status before a worktree directory is created,
\* the environment changed or a build attempted.
C8_MalformedTokenFailsFast ==
  ~ AllValid(argv.number) =>
    /\ pc \in {"parse", "done"}
    /\ pc = "done" => exit_status # 0
    /\ wts = <<>> /\ built = <<>>
    /\ dirs = initial.dirs /\ os_environ = initial.environ

\* An overlay value of wts[m] that the process did not start with.
Installed(m, key) ==
  LET v == Overlay(wts[m].environ, wts[m].nixpkgs_config, wts[m].name)[key]
  IN  IF v # initial.environ[key] THEN {v} ELSE {}

RevFailed ==
  /\ argv.cmd = "rev" /\ built # <<>> /\ built[1].outcome \in {"failed", "error"}
C10_RevFailurePropagates ==
  /\ argv.cmd = "rev" => Len(wts) <= 1 /\ Len(built) <= 1
  /\ RevFailed =>
       /\ Len(wts) = 1 /\ Len(built) = 1 /\ shells = <<>>
       /\ wts[1].rel \in {"releasing", "released"}
       /\ exc # "none"
       /\ pc = "done" => exit_status # 0 /\ wts[1].rel = "released"
       /\ pc = "done" /\ wts[1].raised = "none" =>
            exc = review_commit(built[1].outcome).raises

C10_Witness ==
  /\ RevFailed /\ pc = "done" /\ exc = "CalledProcessError" /\ exit_status = 1
  /\ wts[1].rel = "released" /\ wts[1].name \notin dirs

\* No directory from the working directory up to "/" holds the marker.
NoRoot == \A d \in 0..initial.cwd : d \notin release_nix
\* What main has done so far when it has not got past the search.
FailsFast ==
  /\ pc \in {"find", "die", "done"}
  /\ Len(prefix) <= initial.cwd + 1
  /\ root = <<>>
  /\ cwd = initial.cwd
  /\ prs = <<>> /\ wts = <<>> /\ built = <<>> /\ shells = <<>>
  /\ dirs = initial.dirs /\ tmpfiles = {} /\ os_environ = initial.environ
  /\ pc = "done" => exit_status # 0

\* C11: when neither the working directory nor any of its ancestors holds
\* nixos/release.nix, the walk of find_nixpkgs_root ends with no root and main
\* ends with a nonzero status, and until then the working directory is not
\* changed, no subcommand parsed or entered, no worktree created and no build
\* started.
C11_NoRootFailsFast ==
  /\ [](NoRoot => FailsFast)
  /\ NoRoot ~> (pc = "done" /\ exit_status # 0)

C11_Witness ==
  /\ NoRoot /\ initial.cwd = 2 /\ prefix = <<".", "..", "..">>
  /\ pc = "done" /\ exc = "SystemExit" /\ exit_status = 1
  /\ stderr = <<(<<"Has to be execute from nixpkgs repository", <<>>, 0>>)>>

\* The process is inside the block guarded by DisableKeyboardInterrupt.
Guarded == pc \in {"r_rmtree", "r_prune", "r_clear", "r_unguard"}
\* The steps of wts[k]'s release that were executed, as <<step, ok>>.
Steps(k) ==
  LET mine == SelectSeq(cleanup, LAMBDA c : c.wt = k)
  IN  [n \in 1..Len(mine) |-> <<mine[n].step, mine[n].ok>>]

\* C12: inside the guarded block the warning handler is installed and
\* old_handler holds the handler of before; whenever the block has been left,
\* by its end or by an error raised inside it, the SIGINT handler is the one
\* that was installed when the block was entered, which after any number of
\* releases is the handler the process started with.
C12_HandlerRestored ==
  /\ Guarded => handler = "warn" /\ old_handler = initial.handler
  /\ ~ Guarded => handler = initial.handler

\* A batch of two: the guard of the second worktree was left by the error of
\* git worktree prune, that of the first by its end, and SIGINT is ignored
\* again as it was when the process started.
C12_Witness ==
  /\ pc = "done" /\ Len(wts) = 2 /\ initial.handler = "ignore" /\ handler = "ignore"
  /\ Steps(2) = <<(<<"close", TRUE>>), <<"environ", TRUE>>, <<"rmtree", TRUE>>,
                  <<"prune", FALSE>>>>
  /\ Steps(1) = <<(<<"close", TRUE>>), <<"environ", TRUE>>, <<"rmtree", TRUE>>,
                  <<"prune", TRUE>>, <<"clear", TRUE>>>>

\* The value of NIXPKGS_CONFIG that names the temporary file of wts[k].
ConfigPointer(k) == <<"tmpfile", "", wts[k].nixpkgs_config>>

C14_MissingDirTolerated ==
  [][pc = "r_rmtree" /\ wts[u].name \notin dirs /\ pc' # pc =>
       /\ pc' = "r_prune"
       /\ exc' = exc
       /\ wts' = wts]_vars

\* The steps of wts[k]'s release that were attempted.
Tried(k) == {Steps(k)[n][1] : n \in 1..Len(Steps(k))}
CleanupErrors == {"OSError", "FileNotFoundError", "CalledProcessError"}

\* C15: a release in which the close of the temporary file, the removal of
\* the directory or the pruning failed has attempted all of its steps before
\* the failure surfaces: the close, the restoration of the environment, the
\* removal of the directory and the pruning.
C15_BestEffortRelease ==
  \A k \in 1..Len(wts) :
    Released(k) /\ wts[k].raised \in CleanupErrors =>
      {"close", "environ", "rmtree", "prune"} \subseteq Tried(k)

\* The order of a batch, in any state of it: the builds attempted are those
\* of the first items in input order; a shell is launched only when every item
\* has been attempted; the shells launched are those of the first successful
\* items in input order; and the exit for failed items is raised only when the
\* shell of every successful item has been launched.
BatchOrder ==
  argv.cmd = "pr" =>
    /\ Len(built) <= Len(prs)
    /\ \A k \in 1..Len(built) : built[k].pr = prs[k]
    /\ shells # <<>> => Len(built) = Len(prs)
    /\ Len(shells) <= Len(Succeeded)
    /\ \A k \in 1..Len(shells) : shells[k].attrs = Succeeded[k].pr
    /\ exc = "SystemExit" /\ Failed # {} =>
         Len(built) = Len(prs) /\ Len(shells) = Len(Succeeded)
\* The build of an item that is not the last has just failed.
FailsNotLast ==
  /\ pc = "build" /\ i < Len(prs)
  /\ Len(built') = Len(built) + 1 /\ built'[Len(built')].outcome = "failed"

\* C16: in batch mode the items are built in input order; a failed build is
\* followed by the acquisition for the next item; no shell is launched before
\* every item has been attempted; the shells are launched one at a time in the
\* input order of the successful items; and the nonzero exit for failed items
\* comes after the shells of all successful items.
C16_BatchOrder ==
  [][/\ BatchOrder'
     /\ FailsNotLast => pc' = "acquire" /\ i' = i + 1 /\ exc' = "none"
     /\ Len(shells') <= Len(shells) + 1]_vars

\* Of two items the first failed to build, which was reported; the second was
\* built all the same and got its shell before the exit.
C16_Witness ==
  /\ argv.cmd = "pr" /\ pc = "done" /\ exit_status = 1 /\ exc = "SystemExit"
  /\ prs = <<1, 2>>
  /\ built = <<[pr |-> 1, outcome |-> "failed"], [pr |-> 2, outcome |-> "ok"]>>
  /\ Len(shells) = 1 /\ shells[1].attrs = 2
  /\ stderr = <<(<<"https://github.com/NixOS/nixpkgs/pull/ failed to build", <<>>, 1>>)>>

\* C17: the message parse_pr_numbers prints when it rejects a token carries
\* that token.
C17_ErrorNamesToken ==
  \A k \in 1..Len(stderr) :
    stderr[k][1] = "expected number, got " =>
      stderr[k][2] = argv.number[parse_pr_numbers(argv.number).bad]

\* What the program has done, apart from the warnings printed and the
\* histories of the signals delivered.
Progress ==
  <<pc, prs, i, j, attrsets, u, os_environ, dirs, tmpfiles, handler, old_handler, exc,
    exit_status, built, shells, stderr, cleanup, mainvars,
    [k \in 1..Len(wts) |-> <<WorktreeData(wts)[k], wts[k].rel, wts[k].raised>>]>>
\* Every SIGINT so far was delivered to the warning handler.
AllIgnored == nint >= 1 /\ stdout = nint
AllSteps ==
  <<(<<"close", TRUE>>), <<"environ", TRUE>>, <<"rmtree", TRUE>>, <<"prune", TRUE>>,
    <<"clear", TRUE>>>>

\* C18: a SIGINT delivered while the warning handler is installed prints the
\* warning and changes nothing else; the release it was delivered in executes
\* all of its steps and returns; and no KeyboardInterrupt is raised then or
\* later on its account.
C18_InterruptOnlyWarns ==
  [][/\ handler = "warn" /\ nint' = nint + 1 =>
          stdout' = stdout + 1 /\ Progress' = Progress
     /\ AllIgnored' =>
          /\ exc' # "KeyboardInterrupt"
          /\ \A k \in 1..Len(wts') : wts'[k].raised # "KeyboardInterrupt"
          /\ \A k \in 1..Len(built') : built'[k].outcome # "interrupted"
     /\ \A k \in 1..Len(wts) :
          ScopeExits(k) /\ wts'[k].hit /\ AllIgnored' /\ nfaults' = 0 =>
            /\ wts'[k].raised = "none"
            /\ Steps(k)' = AllSteps
            /\ wts[k].name \notin dirs']_vars

\* A session that got its SIGINT inside the guarded block ended as if it had
\* got none, but for the warning.
C18_Witness ==
  /\ pc = "done" /\ AllIgnored /\ stdout = 1 /\ exc = "none" /\ exit_status = 0
  /\ Len(wts) = 1 /\ wts[1].hit /\ wts[1].raised = "none" /\ Steps(1) = AllSteps
  /\ dirs = initial.dirs /\ handler = "default"

\* C19: the URL printed before the shell of a successful item is launched is
\* the URL of that item.
C19_UrlNamesItem ==
  argv.cmd = "pr" => \A k \in 1..Len(shells) : shells[k].url = shells[k].attrs

\* wts[k]'s release has begun.
Begun(k) == wts[k].rel \in {"releasing", "released"}

\* C20: in batch mode every worktree acquired is live, and its directory
\* there unless it was removed from outside, as long as the body of the with
\* statement runs (until the last shell is left or an error ends the body);
\* the worktrees are released in the reverse order of their acquisition, one
\* at a time; and when the session has ended each has been released (its
\* __exit__ was called, and ran unless a SIGINT ended it at once), whatever the
\* release of a worktree acquired after it raised.
C20_ReleasedInReverse ==
  argv.cmd = "pr" =>
    /\ InBody =>
         \A k \in 1..Len(wts) : wts[k].rel = "live" /\ (nfaults = 0 => wts[k].name \in dirs)
    /\ \A k \in 1..Len(wts) : Begun(k) => \A m \in (k + 1)..Len(wts) : Released(m)
    /\ \A n \in 2..Len(cleanup) : cleanup[n - 1].wt >= cleanup[n].wt
    /\ pc = "done" =>
         \A k \in 1..Len(wts) :
           /\ Released(k)
           /\ wts[k].raised # "KeyboardInterrupt" => Steps(k) # <<>>

\* The release of the second worktree raised (git worktree prune failed) and
\* the first was released after it, completely.
C20_Witness ==
  /\ argv.cmd = "pr" /\ pc = "done" /\ Len(wts) = 2 /\ Len(shells) = 2
  /\ wts[2].raised = "CalledProcessError" /\ wts[1].raised = "none"
  /\ Steps(1) = AllSteps /\ wts[1].name \notin dirs
  /\ exc = "CalledProcessError" /\ exit_status = 1

====
